---- MODULE Spec2Model ----
(***************************************************************************)
(* State-machine model of the brassfibre DataFrame: a row Indexer, a       *)
(* column Indexer and one column array per column, held behind Cow         *)
(* (owned or borrowed) storage.  Positions are 1-based here (usize         *)
(* position p of the source is position p+1 of the model).                 *)
(***************************************************************************)
EXTENDS Integers, Sequences, FiniteSets, TLC

\* ---------------------------------------------------------------- bounds
MaxRows == 2
MaxCols == 2
MaxOps == 3

Handles == {1, 2, 3}
RowLabels == {"a", "b"}
ColLabels == {"x", "y"}
Keys == {1, 2, 3}
TestIndex == <<"10", "20", "30", "40", "50">>
Labels == RowLabels \cup ColLabels \cup {TestIndex[k] : k \in 1..5}

VARIABLES tables, live, last, nops, series, gb

vars == <<tables, live, last, nops, series, gb>>

\* ---------------------------------------------------------------- helpers
SeqsUpTo(S, n) == UNION {[1..k -> S] : k \in 0..n}

Range(s) == {s[k] : k \in 1..Len(s)}

\* ---------------------------------------------------------------- Indexer
\* ordered label sequence plus the label -> position(s) mapping
MkTable(labels) == [l \in Labels |-> {p \in 1..Len(labels) : labels[p] = l}]

IndexerNew(labels) == [values |-> labels, htable |-> MkTable(labels)]

EmptyIndexer == IndexerNew(<<>>)

IndexerLen(ix) == Len(ix.values)

\* the position lists get_locs may return: one mapped position per queried
\* label (which one, for a duplicated label, is not fixed); {} when a
\* queried label is absent (UnknownLabel)
IndexerGetLocs(ix, q) ==
    {locs \in [1..Len(q) -> 1..(IndexerLen(ix) + 1)] :
        \A k \in 1..Len(q) : locs[k] \in ix.htable[q[k]]}

IndexerInBounds(ix, locs) == \A k \in 1..Len(locs) : locs[k] \in 1..IndexerLen(ix)

\* reindex: labels[positions]; the caller tests IndexerInBounds first
IndexerReindex(ix, locs) == IndexerNew([k \in 1..Len(locs) |-> ix.values[locs[k]]])

IndexerAppend(a, b) == IndexerNew(a.values \o b.values)

IndexerPush(ix, l) ==
    [values |-> Append(ix.values, l),
     htable |-> [ix.htable EXCEPT ![l] = @ \cup {Len(ix.values) + 1}]]

\* structural equality: the label sequence only
IndexerEq(a, b) == a.values = b.values

\* ---------------------------------------------------------------- Array
\* the column array filled by the caller: element i of column j of the
\* table built into handle h
MkArray(h, j, n) == [i \in 1..n |-> 100 * h + 10 * j + i]

\* positional gather; only called with in-range positions
ArrayIlocsUnchecked(arr, locs) == [k \in 1..Len(locs) |-> arr[locs[k]]]

\* ---------------------------------------------------------------- Cow
Owned(ix) == [cow |-> "Owned", of |-> 0, ix |-> ix]

Borrowed(h) == [cow |-> "Borrowed", of |-> h, ix |-> EmptyIndexer]

OwnedArr(arr) == [cow |-> "Owned", arr |-> arr]

EmptyTable == [values |-> <<>>, index |-> Owned(EmptyIndexer), columns |-> Owned(EmptyIndexer)]

\* Cow::borrow / Deref: the Indexer a Cow designates in the table store tbls
IndexOf(tbls, t) ==
    IF t.index.cow = "Owned" THEN t.index.ix ELSE tbls[t.index.of].index.ix

ColumnsOf(tbls, t) ==
    IF t.columns.cow = "Owned" THEN t.columns.ix ELSE tbls[t.columns.of].columns.ix

\* the handle whose storage a borrow of t's row / column Indexer designates
IndexOwner(h, t) == IF t.index.cow = "Owned" THEN h ELSE t.index.of

ColumnsOwner(h, t) == IF t.columns.cow = "Owned" THEN h ELSE t.columns.of

Arrays(t) == [j \in 1..Len(t.values) |-> t.values[j].arr]

\* what a holder of handle h can observe of its table
View(tbls, h) ==
    [index |-> IndexOf(tbls, tbls[h]).values,
     columns |-> ColumnsOf(tbls, tbls[h]).values,
     values |-> Arrays(tbls[h])]

\* handles other than h whose table borrows storage of h
Borrowers(h) ==
    {g \in live \ {h} : (tables[g].index.cow = "Borrowed" /\ tables[g].index.of = h)
                        \/ (tables[g].columns.cow = "Borrowed" /\ tables[g].columns.of = h)}

\* ---------------------------------------------------------------- last call
NoCall ==
    [op |-> "none", err |-> "ok", src |-> 0, other |-> 0, dst |-> 0,
     locs |-> <<>>, rlocs |-> <<>>, labels |-> <<>>, arr |-> <<>>, lens |-> <<>>,
     keys |-> <<>>, order |-> <<>>, groups |-> <<>>, calls |-> <<>>, vals |-> <<>>,
     gather |-> <<>>, fn |-> "none", rvals |-> <<>>, rindex |-> <<>>]

Call(op, err, src, other, dst) ==
    [NoCall EXCEPT !.op = op, !.err = err, !.src = src, !.other = other, !.dst = dst]

\* ---------------------------------------------------------------- Series, GroupBy
\* Series: values and index; live is set once Series::new has built it
EmptySeries == [live |-> FALSE, values |-> <<>>, index |-> EmptyIndexer]

\* GroupBy: data (0: the series, h: the table of handle h) and grouper; keys
\* remembers the key sequence the grouper was built from
NoGroupBy == [live |-> FALSE, data |-> 0, keys |-> <<>>, grouper |-> <<>>]

\* the table of handle h is borrowed by the GroupBy
Grouped(h) == gb.live /\ gb.data = h

Init ==
    /\ tables = [h \in Handles |-> EmptyTable]
    /\ live = {}
    /\ last = NoCall
    /\ nops = 0
    /\ series = EmptySeries
    /\ gb = NoGroupBy

Tick == nops < MaxOps /\ nops' = nops + 1

\* the handle a newly built table is bound to
FreeHandle == CHOOSE h \in Handles \ live : \A g \in Handles \ live : h <= g

HasFree == live # Handles

\* a call that panicked: nothing is built, nothing is changed
Fail(call) == UNCHANGED <<tables, live, series, gb>> /\ last' = call

\* a call that returned table t, bound to the free handle
Return(t, call) ==
    /\ tables' = [tables EXCEPT ![FreeHandle] = t]
    /\ live' = live \cup {FreeHandle}
    /\ last' = [call EXCEPT !.dst = FreeHandle]
    /\ UNCHANGED <<series, gb>>

\* ---------------------------------------------------------------- DataFrame
\* faulty variant: only the number of arrays is asserted
FromVecOkCountOnly(arrays, index, columns) == Len(arrays) = IndexerLen(columns)

\* the two assertions of from_vec
FromVecOk(arrays, index, columns) ==
    /\ Len(arrays) = IndexerLen(columns)
    /\ \A j \in 1..Len(arrays) : Len(arrays[j]) = IndexerLen(index)

DataFrameFromVec(arrays, index, columns) ==
    [values |-> [j \in 1..Len(arrays) |-> OwnedArr(arrays[j])],
     index |-> Owned(index),
     columns |-> Owned(columns)]

\* the caller holds at most one table when it builds another from arrays
FromVec(lens, rl, cl) ==
    /\ Tick
    /\ HasFree
    /\ Cardinality(live) <= 1
    /\ LET arrays == [j \in 1..Len(lens) |-> MkArray(FreeHandle, j, lens[j])]
           index == IndexerNew(rl)
           columns == IndexerNew(cl)
           call == [Call("from_vec", "ok", 0, 0, 0)
                       EXCEPT !.lens = lens, !.locs = <<Len(rl), Len(cl)>>]
       IN IF FromVecOk(arrays, index, columns)
          THEN Return(DataFrameFromVec(arrays, index, columns), call)
          ELSE Fail([call EXCEPT !.err = "LengthMismatch"])

\* faulty variant: the columns are gathered but the row Indexer is cloned as it is
DataFrameReindexByIndexKeepIndex(tbls, h, locs) ==
    LET t == tbls[h]
        new_values == [j \in 1..Len(t.values) |->
                          OwnedArr(ArrayIlocsUnchecked(t.values[j].arr, locs))]
    IN [values |-> new_values,
        index |-> Owned(IndexOf(tbls, t)),
        columns |-> Borrowed(ColumnsOwner(h, t))]

\* RowIndex::reindex_by_index on the table of handle h
DataFrameReindexByIndex(tbls, h, locs) ==
    LET t == tbls[h]
        new_index == IndexerReindex(IndexOf(tbls, t), locs)
        new_values == [j \in 1..Len(t.values) |->
                          OwnedArr(ArrayIlocsUnchecked(t.values[j].arr, locs))]
    IN [values |-> new_values,
        index |-> Owned(new_index),
        columns |-> Borrowed(ColumnsOwner(h, t))]

\* faulty variant: the loop over the columns runs before index.reindex
ReindexByIndexGathersFirst(tbls, h, locs) ==
    [j \in 1..Len(tbls[h].values) |-> [len |-> Len(tbls[h].values[j].arr), locs |-> locs]]

\* the calls of ilocs_unchecked that reindex_by_index makes: none when
\* index.reindex has failed, else one per column, each on the array's length
\* and the locations
ReindexByIndexGathers(tbls, h, locs) ==
    IF IndexerInBounds(IndexOf(tbls, tbls[h]), locs)
    THEN [j \in 1..Len(tbls[h].values) |->
             [len |-> Len(tbls[h].values[j].arr), locs |-> locs]]
    ELSE <<>>

\* the accesses self.values[*loc] that igets makes: none when columns.reindex
\* has failed, else one per location
IGetsAccesses(tbls, h, locs) ==
    IF IndexerInBounds(ColumnsOf(tbls, tbls[h]), locs)
    THEN [k \in 1..Len(locs) |-> [len |-> Len(tbls[h].values), locs |-> <<locs[k]>>]]
    ELSE <<>>

ReindexByIndex(src, locs) ==
    /\ Tick
    /\ HasFree
    /\ src \in live
    /\ LET call == [Call("reindex_by_index", "ok", src, 0, 0)
                       EXCEPT !.locs = locs,
                              !.gather = ReindexByIndexGathers(tables, src, locs)]
       IN IF IndexerInBounds(IndexOf(tables, tables[src]), locs)
          THEN Return(DataFrameReindexByIndex(tables, src, locs), call)
          ELSE Fail([call EXCEPT !.err = "OutOfBounds"])

\* faulty variant: the labels are looked up in the column Indexer
DataFrameGetLocsInColumns(tbls, h, labels) ==
    IndexerGetLocs(ColumnsOf(tbls, tbls[h]), labels)

\* self.index.get_locs(labels) of reindex
DataFrameGetLocs(tbls, h, labels) ==
    IndexerGetLocs(IndexOf(tbls, tbls[h]), labels)

\* RowIndex::reindex (by label): get_locs, then reindex_by_index
Reindex(src, labels) ==
    /\ Tick
    /\ HasFree
    /\ src \in live
    /\ LET call == [Call("reindex", "ok", src, 0, 0) EXCEPT !.labels = labels]
           choices == DataFrameGetLocs(tables, src, labels)
       IN IF choices = {}
          THEN Fail([call EXCEPT !.err = "UnknownLabel"])
          ELSE \E locs \in choices :
                  Return(DataFrameReindexByIndex(tables, src, locs),
                         [call EXCEPT !.locs = locs,
                                      !.gather = ReindexByIndexGathers(tables, src, locs)])

\* faulty variant: the loop over the locations skips the first one
DataFrameIGetsSkipFirst(tbls, h, locs) ==
    LET t == tbls[h]
        new_columns == IndexerReindex(ColumnsOf(tbls, t), locs)
        new_values == [k \in 1..(Len(locs) - 1) |-> OwnedArr(t.values[locs[k + 1]].arr)]
    IN [values |-> new_values,
        index |-> Borrowed(IndexOwner(h, t)),
        columns |-> Owned(new_columns)]

\* faulty variant: the column arrays are picked but the column Indexer is cloned as it is
DataFrameIGetsKeepColumns(tbls, h, locs) ==
    LET t == tbls[h]
        new_values == [k \in 1..Len(locs) |-> OwnedArr(t.values[locs[k]].arr)]
    IN [values |-> new_values,
        index |-> Borrowed(IndexOwner(h, t)),
        columns |-> Owned(ColumnsOf(tbls, t))]

\* ColIndex::igets on the table of handle h
DataFrameIGets(tbls, h, locs) ==
    LET t == tbls[h]
        new_columns == IndexerReindex(ColumnsOf(tbls, t), locs)
        new_values == [k \in 1..Len(locs) |-> OwnedArr(t.values[locs[k]].arr)]
    IN [values |-> new_values,
        index |-> Borrowed(IndexOwner(h, t)),
        columns |-> Owned(new_columns)]

IGets(src, locs) ==
    /\ Tick
    /\ HasFree
    /\ src \in live
    /\ LET call == [Call("igets", "ok", src, 0, 0)
                       EXCEPT !.locs = locs, !.gather = IGetsAccesses(tables, src, locs)]
       IN IF IndexerInBounds(ColumnsOf(tables, tables[src]), locs)
          THEN Return(DataFrameIGets(tables, src, locs), call)
          ELSE Fail([call EXCEPT !.err = "OutOfBounds"])

\* ColIndex::gets: get_locs on the column Indexer, then igets
Gets(src, labels) ==
    /\ Tick
    /\ HasFree
    /\ src \in live
    /\ LET call == [Call("gets", "ok", src, 0, 0) EXCEPT !.labels = labels]
           choices == IndexerGetLocs(ColumnsOf(tables, tables[src]), labels)
       IN IF choices = {}
          THEN Fail([call EXCEPT !.err = "UnknownLabel"])
          ELSE \E locs \in choices :
                  Return(DataFrameIGets(tables, src, locs),
                         [call EXCEPT !.locs = locs,
                                      !.gather = IGetsAccesses(tables, src, locs)])

\* faulty variant: push through the Cow without to_mut: a borrowed column Indexer
\* is extended in the storage of its owner
ColumnsPushInPlace(tbls, h, name) ==
    IF tbls[h].columns.cow = "Owned"
    THEN [tbls EXCEPT ![h].columns.ix = IndexerPush(@, name)]
    ELSE [tbls EXCEPT ![tbls[h].columns.of].columns.ix = IndexerPush(@, name)]

\* faulty variant: the label is pushed onto the Indexer's values vector
\* directly, past Indexer::push
ColumnsToMutPushValues(tbls, h, name) ==
    [tbls EXCEPT ![h].columns =
        Owned([ColumnsOf(tbls, tbls[h]) EXCEPT !.values = Append(@, name)])]

\* Cow::to_mut on the column Indexer of handle h, then Indexer::push
ColumnsToMutPush(tbls, h, name) ==
    [tbls EXCEPT ![h].columns = Owned(IndexerPush(ColumnsOf(tbls, tbls[h]), name))]

\* faulty variant: insert without its length assertion
InsertOkUnchecked(tbls, h, arr) == TRUE

\* the assertion of insert
InsertOk(tbls, h, arr) == IndexerLen(IndexOf(tbls, tbls[h])) = Len(arr)

\* faulty variant: the array is pushed before the length is asserted
DataFrameInsertPushFirst(tbls, h, arr, name) ==
    IF InsertOk(tbls, h, arr)
    THEN ColumnsToMutPush([tbls EXCEPT ![h].values = Append(@, OwnedArr(arr))], h, name)
    ELSE [tbls EXCEPT ![h].values = Append(@, OwnedArr(arr))]

\* faulty variant: the array is put in front of the existing ones
DataFrameInsertAtFront(tbls, h, arr, name) ==
    IF InsertOk(tbls, h, arr)
    THEN ColumnsToMutPush([tbls EXCEPT ![h].values = <<OwnedArr(arr)>> \o @], h, name)
    ELSE tbls

DataFrameInsert(tbls, h, arr, name) ==
    IF InsertOk(tbls, h, arr)
    THEN ColumnsToMutPush([tbls EXCEPT ![h].values = Append(@, OwnedArr(arr))], h, name)
    ELSE tbls

\* insert takes &mut self: no borrow of the table is alive
Insert(h, n, name) ==
    /\ Tick
    /\ h \in live
    /\ Borrowers(h) = {} /\ ~Grouped(h)
    /\ Len(tables[h].values) < MaxCols
    /\ LET arr == MkArray(h, 9, n)
           shared == IF tables[h].columns.cow = "Borrowed" THEN tables[h].columns.of ELSE 0
           call == [Call("insert", "ok", h, shared, 0)
                       EXCEPT !.arr = arr, !.labels = <<name>>]
       IN /\ tables' = DataFrameInsert(tables, h, arr, name)
          /\ live' = live
          /\ last' = IF InsertOk(tables, h, arr)
                     THEN call ELSE [call EXCEPT !.err = "LengthMismatch"]
          /\ UNCHANGED <<series, gb>>

\* ---------------------------------------------------------------- reshape
\* faulty variant: the other table's rows and labels are put first
DataFrameAppendOtherFirst(tbls, a, b) ==
    LET s == tbls[a]
        o == tbls[b]
        new_index == IndexerAppend(IndexOf(tbls, o), IndexOf(tbls, s))
        n == IF Len(s.values) <= Len(o.values) THEN Len(s.values) ELSE Len(o.values)
        new_values == [j \in 1..n |-> o.values[j].arr \o s.values[j].arr]
    IN [arrays |-> new_values, index |-> new_index, columns |-> ColumnsOf(tbls, s)]

\* Appender::append up to its closing from_vec; Array::append is
\* concatenation, zip stops at the shorter list
DataFrameAppend(tbls, a, b) ==
    LET s == tbls[a]
        o == tbls[b]
        new_index == IndexerAppend(IndexOf(tbls, s), IndexOf(tbls, o))
        n == IF Len(s.values) <= Len(o.values) THEN Len(s.values) ELSE Len(o.values)
        new_values == [j \in 1..n |-> s.values[j].arr \o o.values[j].arr]
    IN [arrays |-> new_values, index |-> new_index, columns |-> ColumnsOf(tbls, s)]

\* faulty variant: append without its column assertion
AppendOkUnchecked(tbls, a, b) == TRUE

\* the assertion of append
AppendOk(tbls, a, b) == IndexerEq(ColumnsOf(tbls, tbls[a]), ColumnsOf(tbls, tbls[b]))

\* the from_vec call that ends append, concat and join_inner
BuildFromVec(r, call) ==
    IF FromVecOk(r.arrays, r.index, r.columns)
    THEN Return(DataFrameFromVec(r.arrays, r.index, r.columns), call)
    ELSE Fail([call EXCEPT !.err = "LengthMismatch"])

AppendTables(a, b) ==
    /\ Tick
    /\ HasFree
    /\ a \in live /\ b \in live
    /\ Len(IndexOf(tables, tables[a]).values) + Len(IndexOf(tables, tables[b]).values) <= MaxRows
    /\ LET call == Call("append", "ok", a, b, 0)
       IN IF AppendOk(tables, a, b)
          THEN BuildFromVec(DataFrameAppend(tables, a, b), call)
          ELSE Fail([call EXCEPT !.err = "ColumnsDiffer"])

\* Concatenator::concat
DataFrameConcat(tbls, a, b) ==
    LET s == tbls[a]
        o == tbls[b]
        new_columns == IndexerAppend(ColumnsOf(tbls, s), ColumnsOf(tbls, o))
    IN [arrays |-> Arrays(s) \o Arrays(o), index |-> IndexOf(tbls, s), columns |-> new_columns]

\* faulty variant: concat without its index assertion
ConcatOkUnchecked(tbls, a, b) == TRUE

\* the assertion of concat
ConcatOk(tbls, a, b) == IndexerEq(IndexOf(tbls, tbls[a]), IndexOf(tbls, tbls[b]))

ConcatTables(a, b) ==
    /\ Tick
    /\ HasFree
    /\ a \in live /\ b \in live
    /\ Len(tables[a].values) + Len(tables[b].values) <= MaxCols
    /\ LET call == Call("concat", "ok", a, b, 0)
       IN IF ConcatOk(tables, a, b)
          THEN BuildFromVec(DataFrameConcat(tables, a, b), call)
          ELSE Fail([call EXCEPT !.err = "IndexDiffer"])

\* ---------------------------------------------------------------- join
\* positions of label l in right, in their original order
Matches(l, right) == SelectSeq([j \in 1..Len(right) |-> j], LAMBDA j : right[j] = l)

RECURSIVE PairsFrom(_, _, _)
\* left labels in their original order, each with its right matches in order
PairsFrom(i, left, right) ==
    IF i > Len(left) THEN <<>>
    ELSE LET m == Matches(left[i], right)
         IN [k \in 1..Len(m) |-> <<i, m[k]>>] \o PairsFrom(i + 1, left, right)

\* HashJoin::inner: (merged_labels, left_positions, right_positions)
HashJoinInner(left, right) ==
    LET pairs == PairsFrom(1, left, right)
    IN [labels |-> [k \in 1..Len(pairs) |-> left[pairs[k][1]]],
        lindexer |-> [k \in 1..Len(pairs) |-> pairs[k][1]],
        rindexer |-> [k \in 1..Len(pairs) |-> pairs[k][2]]]

\* faulty variant: the left row Indexer is passed for both sides
JoinPairingSelf(tbls, a, b) ==
    HashJoinInner(IndexOf(tbls, tbls[a]).values, IndexOf(tbls, tbls[a]).values)

\* faulty variant: the two row Indexers are passed in the other order
JoinPairingSwapped(tbls, a, b) ==
    HashJoinInner(IndexOf(tbls, tbls[b]).values, IndexOf(tbls, tbls[a]).values)

\* the pairing join_inner computes over the two row Indexers
JoinPairing(tbls, a, b) ==
    HashJoinInner(IndexOf(tbls, tbls[a]).values, IndexOf(tbls, tbls[b]).values)

\* faulty variant: the right table's gathered columns are pushed first
DataFrameJoinInnerRightFirst(tbls, a, b, j) ==
    LET new_columns == IndexerAppend(ColumnsOf(tbls, tbls[a]), ColumnsOf(tbls, tbls[b]))
        lrows == DataFrameReindexByIndex(tbls, a, j.lindexer)
        rrows == DataFrameReindexByIndex(tbls, b, j.rindexer)
    IN [arrays |-> Arrays(rrows) \o Arrays(lrows),
        index |-> IndexerNew(j.labels),
        columns |-> new_columns]

\* Joiner::join_inner, given the pairing j; ilocs is the row gather
DataFrameJoinInner(tbls, a, b, j) ==
    LET new_columns == IndexerAppend(ColumnsOf(tbls, tbls[a]), ColumnsOf(tbls, tbls[b]))
        lrows == DataFrameReindexByIndex(tbls, a, j.lindexer)
        rrows == DataFrameReindexByIndex(tbls, b, j.rindexer)
    IN [arrays |-> Arrays(lrows) \o Arrays(rrows),
        index |-> IndexerNew(j.labels),
        columns |-> new_columns]

JoinInner(a, b) ==
    /\ Tick
    /\ HasFree
    /\ a \in live /\ b \in live
    /\ Len(tables[a].values) + Len(tables[b].values) <= MaxCols
    /\ Len(IndexOf(tables, tables[a]).values) <= MaxRows
    /\ Len(IndexOf(tables, tables[b]).values) <= MaxRows
    /\ LET j == JoinPairing(tables, a, b)
           call == [Call("join_inner", "ok", a, b, 0)
                       EXCEPT !.locs = j.lindexer, !.rlocs = j.rindexer, !.labels = j.labels]
       IN IF /\ IndexerInBounds(IndexOf(tables, tables[a]), j.lindexer)
             /\ IndexerInBounds(IndexOf(tables, tables[b]), j.rindexer)
          THEN BuildFromVec(DataFrameJoinInner(tables, a, b, j), call)
          ELSE Fail([call EXCEPT !.err = "OutOfBounds"])

Drop(h) ==
    /\ Tick
    /\ h \in live
    /\ Borrowers(h) = {} /\ ~Grouped(h)
    /\ tables' = [tables EXCEPT ![h] = EmptyTable]
    /\ live' = live \ {h}
    /\ last' = Call("drop", "ok", h, 0, 0)
    /\ UNCHANGED <<series, gb>>

\* ---------------------------------------------------------------- Series
\* the length test of Series::new
SeriesNewOk(values, index) == Len(values) = Len(index)

SeriesNew(values, index) ==
    [live |-> TRUE, values |-> values, index |-> IndexerNew(index)]

NewSeries(values, index) ==
    /\ Tick
    /\ ~series.live /\ ~gb.live
    /\ LET call == [Call("series_new", "ok", 0, 0, 0)
                       EXCEPT !.arr = values, !.labels = index]
       IN IF SeriesNewOk(values, index)
          THEN /\ series' = SeriesNew(values, index)
               /\ last' = call
               /\ UNCHANGED <<tables, live, gb>>
          ELSE Fail([call EXCEPT !.err = "LengthMismatch"])

\* positional gather of a Series: values and labels at the locations
SeriesIlocs(s, locs) ==
    SeriesNew([k \in 1..Len(locs) |-> s.values[locs[k]]],
              [k \in 1..Len(locs) |-> s.index.values[locs[k]]])

RECURSIVE VecSum(_)
VecSum(v) == IF v = <<>> THEN 0 ELSE Head(v) + VecSum(Tail(v))

\* ---------------------------------------------------------------- Grouper
\* position i is appended to the list of key k, which is created on first use
GrouperPush(g, k, i) ==
    [x \in DOMAIN g \cup {k} |->
        IF x \in DOMAIN g
        THEN (IF x = k THEN Append(g[x], i) ELSE g[x])
        ELSE <<i>>]

RECURSIVE GrouperBuild(_, _, _)
GrouperBuild(keys, i, g) ==
    IF i > Len(keys) THEN g ELSE GrouperBuild(keys, i + 1, GrouperPush(g, keys[i], i))

\* HashGrouper::groupby: one pass over the keys in position order
HashGrouperGroupby(keys) == GrouperBuild(keys, 1, <<>>)

HashGrouperHas(g, k) == k \in DOMAIN g

HashGrouperGet(g, k) == g[k]

\* HashGrouper::keys: every key once, in the iteration order of the hash
\* table, which is any order
HashGrouperKeys(g) ==
    {o \in [1..Cardinality(DOMAIN g) -> DOMAIN g] : Range(o) = DOMAIN g}

\* ---------------------------------------------------------------- GroupBy
\* length of the grouped data: the series (0) or the table of handle d
DataLen(d) ==
    IF d = 0 THEN Len(series.values) ELSE IndexerLen(IndexOf(tables, tables[d]))

\* faulty variant: fewer keys than rows are accepted
GroupByNewOkAtMost(d, keys) == Len(keys) <= DataLen(d)

\* the assertion of GroupBy::new
GroupByNewOk(d, keys) == DataLen(d) = Len(keys)

\* faulty variant: the grouper is built from the keys that fit the data
GroupByNewGrouperTruncated(d, keys) ==
    HashGrouperGroupby(SubSeq(keys, 1, DataLen(d) - 1))

\* the grouper GroupBy::new builds
GroupByNewGrouper(d, keys) == HashGrouperGroupby(keys)

GroupByNew(d, keys) ==
    /\ Tick
    /\ ~gb.live
    /\ (d = 0 /\ series.live) \/ d \in live
    /\ LET call == [Call("groupby", "ok", d, 0, 0) EXCEPT !.keys = keys]
       IN IF GroupByNewOk(d, keys)
          THEN /\ gb' = [live |-> TRUE, data |-> d, keys |-> keys,
                         grouper |-> GroupByNewGrouper(d, keys)]
               /\ last' = call
               /\ UNCHANGED <<tables, live, series>>
          ELSE Fail([call EXCEPT !.err = "LengthMismatch"])

\* std sort of a vector of keys
SortedInsert(sorted, x) ==
    SelectSeq(sorted, LAMBDA y : y <= x) \o <<x>> \o SelectSeq(sorted, LAMBDA y : y > x)

RECURSIVE VecSort(_)
VecSort(v) == IF v = <<>> THEN <<>> ELSE SortedInsert(VecSort(Tail(v)), Head(v))

\* faulty variant: the keys are returned as the grouper yields them
GroupByGroupsUnsorted(order) == order

\* GroupBy::groups on the keys the grouper yields
GroupByGroups(order) == VecSort(order)

Groups ==
    /\ Tick
    /\ gb.live
    /\ \E order \in HashGrouperKeys(gb.grouper) :
          last' = [Call("groups", "ok", gb.data, 0, 0)
                      EXCEPT !.order = order, !.groups = GroupByGroups(order)]
    /\ UNCHANGED <<tables, live, series, gb>>

\* the Indexer of the grouped data
DataIndex(d) == IF d = 0 THEN series.index ELSE IndexOf(tables, tables[d])

\* faulty variant: the locations of the group are gathered back to front
GroupByGetGroupReversed(g, key) ==
    IF HashGrouperHas(g, key)
    THEN LET locs == HashGrouperGet(g, key)
         IN [err |-> "ok", locs |-> [k \in 1..Len(locs) |-> locs[Len(locs) + 1 - k]]]
    ELSE [err |-> "GroupNotFound", locs |-> <<>>]

\* faulty variant: a key the grouper does not hold yields the empty group
GroupByGetGroupOrEmpty(g, key) ==
    IF HashGrouperHas(g, key)
    THEN [err |-> "ok", locs |-> HashGrouperGet(g, key)]
    ELSE [err |-> "ok", locs |-> <<>>]

\* GroupBy::get_group: the locations to gather, or the panic
GroupByGetGroup(g, key) ==
    IF HashGrouperHas(g, key)
    THEN [err |-> "ok", locs |-> HashGrouperGet(g, key)]
    ELSE [err |-> "GroupNotFound", locs |-> <<>>]

\* get_group gathers with ilocs, which refuses positions outside the data
GetGroup(key) ==
    /\ Tick
    /\ gb.live
    /\ gb.data = 0 \/ HasFree
    /\ LET call == [Call("get_group", "ok", gb.data, 0, 0) EXCEPT !.keys = <<key>>]
           r == GroupByGetGroup(gb.grouper, key)
       IN IF r.err # "ok"
          THEN Fail([call EXCEPT !.err = r.err])
          ELSE IF ~IndexerInBounds(DataIndex(gb.data), r.locs)
          THEN Fail([call EXCEPT !.err = "OutOfBounds"])
          ELSE IF gb.data = 0
          THEN LET s == SeriesIlocs(series, r.locs)
               IN /\ last' = [call EXCEPT !.locs = r.locs, !.vals = s.values,
                                          !.labels = s.index.values]
                  /\ UNCHANGED <<tables, live, series, gb>>
          ELSE Return(DataFrameReindexByIndex(tables, gb.data, r.locs),
                      [call EXCEPT !.locs = r.locs])

\* faulty variant: the loop of apply runs over the keys as the grouper
\* yields them
ApplyCallsHashOrder(order, groups) ==
    [i \in 1..Len(groups) |->
        [key |-> order[i],
         rows |-> SeriesIlocs(series, GroupByGetGroup(gb.grouper, order[i]).locs).values]]

\* the calls of func in the loop of apply: one per entry of groups, on the
\* values of get_group of that entry
ApplyCalls(order, groups) ==
    [i \in 1..Len(groups) |->
        [key |-> groups[i],
         rows |-> SeriesIlocs(series, GroupByGetGroup(gb.grouper, groups[i]).locs).values]]

\* Applicable::apply of a grouped Series with func = sum
Apply ==
    /\ Tick
    /\ gb.live /\ gb.data = 0
    /\ \E order \in HashGrouperKeys(gb.grouper) :
          LET groups == GroupByGroups(order)
              calls == ApplyCalls(order, groups)
              new_values == [i \in 1..Len(calls) |-> VecSum(calls[i].rows)]
              call == [Call("apply", "ok", 0, 0, 0)
                          EXCEPT !.order = order, !.calls = calls]
          IN IF SeriesNewOk(new_values, groups)
             THEN /\ last' = [call EXCEPT !.vals = new_values, !.groups = groups]
                  /\ UNCHANGED <<tables, live, series, gb>>
             ELSE Fail([call EXCEPT !.err = "LengthMismatch"])

\* ---------------------------------------------------------------- Series arithmetic
Ops == {"add", "sub", "mul", "div", "rem"}

Abs(x) == IF x < 0 THEN -x ELSE x

\* i64 division truncates towards zero; the remainder has the sign of the
\* dividend
I64Div(x, y) ==
    IF (x < 0) = (y < 0) THEN Abs(x) \div Abs(y) ELSE -(Abs(x) \div Abs(y))

I64Rem(x, y) == x - y * I64Div(x, y)

\* i64 / and % panic on a zero divisor
NumDefined(fn, x, y) == fn \in {"div", "rem"} => y # 0

\* (*x).$m(y) of the macro, on i64
NumOp(fn, x, y) ==
    CASE fn = "add" -> x + y
      [] fn = "sub" -> x - y
      [] fn = "mul" -> x * y
      [] fn = "div" -> I64Div(x, y)
      [] fn = "rem" -> I64Rem(x, y)

\* the operands are moved into the operator: after it the caller holds the
\* result, or nothing when it panicked
OpReturn(values, index, call) ==
    IF SeriesNewOk(values, index)
    THEN /\ series' = SeriesNew(values, index)
         /\ last' = [call EXCEPT !.vals = values]
         /\ UNCHANGED <<tables, live, gb>>
    ELSE /\ series' = EmptySeries
         /\ last' = [call EXCEPT !.err = "LengthMismatch"]
         /\ UNCHANGED <<tables, live, gb>>

OpPanic(call, err) ==
    /\ series' = EmptySeries
    /\ last' = [call EXCEPT !.err = err]
    /\ UNCHANGED <<tables, live, gb>>

\* the broadcast form: self op scalar
SeriesBroadcast(fn, rhs) ==
    /\ Tick
    /\ series.live /\ ~gb.live
    /\ LET call == [Call("broadcast", "ok", 0, 0, 0)
                       EXCEPT !.fn = fn, !.arr = series.values,
                              !.labels = series.index.values, !.rvals = <<rhs>>]
       IN IF \E i \in 1..Len(series.values) : ~NumDefined(fn, series.values[i], rhs)
          THEN OpPanic(call, "DivideByZero")
          ELSE OpReturn([i \in 1..Len(series.values) |-> NumOp(fn, series.values[i], rhs)],
                        series.index.values, call)

\* faulty variant: the element-wise form without its index test
ElemwiseOkUnchecked(index, rindex) == TRUE

\* the index test of the element-wise form
ElemwiseOk(index, rindex) == IndexerEq(index, rindex)

\* faulty variant: the operands of each pair are taken in the other order
ElemwiseValuesSwapped(fn, values, rvalues) ==
    LET n == IF Len(values) <= Len(rvalues) THEN Len(values) ELSE Len(rvalues)
    IN [i \in 1..n |-> NumOp(fn, rvalues[i], values[i])]

\* zip and map of the element-wise form; zip stops at the shorter vector
ElemwiseValues(fn, values, rvalues) ==
    LET n == IF Len(values) <= Len(rvalues) THEN Len(values) ELSE Len(rvalues)
    IN [i \in 1..n |-> NumOp(fn, values[i], rvalues[i])]

\* the element-wise form: self op rhs, rhs a series built by Series::new
SeriesElemwise(fn, rvalues, rindex) ==
    /\ Tick
    /\ series.live /\ ~gb.live
    /\ SeriesNewOk(rvalues, rindex)
    /\ LET rhs == SeriesNew(rvalues, rindex)
           n == IF Len(series.values) <= Len(rvalues) THEN Len(series.values) ELSE Len(rvalues)
           call == [Call("elemwise", "ok", 0, 0, 0)
                       EXCEPT !.fn = fn, !.arr = series.values,
                              !.labels = series.index.values,
                              !.rvals = rvalues, !.rindex = rindex]
       IN IF ~ElemwiseOk(series.index, rhs.index)
          THEN OpPanic(call, "IndexDiffer")
          ELSE IF \E i \in 1..n : ~NumDefined(fn, series.values[i], rvalues[i])
          THEN OpPanic(call, "DivideByZero")
          ELSE OpReturn(ElemwiseValues(fn, series.values, rvalues),
                        series.index.values, call)

\* ---------------------------------------------------------------- inputs
\* arrays handed to from_vec for a rows x cols table: all of the right
\* shape, or one array too many / too few, or one array of another length
LenInputs(rows, cols) ==
    {[j \in 1..cols |-> rows]}
    \cup {[j \in 1..k |-> rows] : k \in {cols + 1} \cup ({cols - 1} \cap Nat)}
    \cup {[j \in 1..cols |-> IF j = b THEN r ELSE rows] :
             b \in 1..cols, r \in {rows + 1} \cup ({rows - 1} \cap Nat)}

\* prefix of length n of a repeating label pattern
Pattern(p, n) == [i \in 1..n |-> p[((i - 1) % Len(p)) + 1]]

RowInputs == {Pattern(<<"a", "b">>, n) : n \in 0..MaxRows}
                 \cup {Pattern(<<"a">>, n) : n \in 0..MaxRows}

ColInputs == {Pattern(<<"x", "y">>, n) : n \in 0..MaxCols}

\* position lists: empty, single, reordered, repeated, one out of range
PosInputs(n) == {<<>>, <<1>>, <<2, 1>>, <<1, 1>>, <<1, n + 1>>}

RowQueries == {<<"a">>, <<"b", "a">>, <<"b">>}

ColQueries == {<<"x">>, <<"y", "x">>, <<"y">>}

Next ==
    \/ \E rl \in RowInputs, cl \in ColInputs :
          \E lens \in LenInputs(Len(rl), Len(cl)) : FromVec(lens, rl, cl)
    \/ \E h \in Handles, locs \in PosInputs(MaxRows) : ReindexByIndex(h, locs)
    \/ \E h \in Handles, labels \in RowQueries : Reindex(h, labels)
    \/ \E h \in Handles, locs \in PosInputs(MaxCols) : IGets(h, locs)
    \/ \E h \in Handles, labels \in ColQueries : Gets(h, labels)
    \/ \E h \in Handles, n \in 0..MaxRows, name \in ColLabels : Insert(h, n, name)
    \/ \E a \in Handles, b \in Handles : AppendTables(a, b)
    \/ \E a \in Handles, b \in Handles : ConcatTables(a, b)
    \/ \E a \in Handles, b \in Handles : JoinInner(a, b)
    \/ \E h \in Handles : Drop(h)

Spec == Init /\ [][Next]_vars

\* ---------------------------------------------------------------- grouping
\* the series and the keys of test_series_agg_sum_integer_grouper
TestValues == <<1, 2, 3, 4, 5>>

TestKeys == <<1, 1, 1, 2, 2>>

\* Series::new arguments: equal lengths, and one label more or fewer
SeriesInputs ==
    {<<MkArray(0, 1, n), Pattern(<<"a", "b">>, m)>> :
        n \in 0..MaxRows, m \in 0..MaxRows + 1}
    \cup {<<TestValues, TestIndex>>}

\* keys for the series of the test whose groups interleave
MixedKeys == <<2, 1, 2, 1, 1>>

KeyInputs == SeqsUpTo(Keys, MaxRows + 1) \cup {TestKeys, MixedKeys}

\* the data to group is built first, and it is one table or one series
NoData == live = {} /\ ~series.live

NextGroup ==
    \/ \E rl \in RowInputs, cl \in ColInputs :
          \E lens \in LenInputs(Len(rl), Len(cl)) : NoData /\ FromVec(lens, rl, cl)
    \/ \E in \in SeriesInputs : NoData /\ NewSeries(in[1], in[2])
    \/ \E d \in {0} \cup Handles, keys \in KeyInputs : GroupByNew(d, keys)
    \/ \E key \in Keys : GetGroup(key)
    \/ Groups
    \/ Apply

SpecGroup == Init /\ [][NextGroup]_vars

\* ---------------------------------------------------------------- arithmetic
\* the series of test_series_ops_i64_elemwise
OpsValues == <<1, 2, 3>>

OpsRhsValues == <<1, 3, 2>>

OpsIndex == <<"10", "20", "30">>

\* left operands: a series of every length, and the one of the tests
OpsSeriesInputs ==
    {<<MkArray(0, 0, n), Pattern(<<"a", "b">>, n)>> : n \in 0..MaxRows}
    \cup {<<OpsValues, OpsIndex>>}

\* right operands: the same labels, the labels in another order, one label
\* more or fewer, values with and without a zero; and the one of the tests,
\* also under other labels of the same length
OpsRhsInputs ==
    {<<[i \in 1..n |-> v + i], Pattern(p, n)>> :
        n \in 0..MaxRows + 1, v \in {-1, 1}, p \in {<<"a", "b">>, <<"b", "a">>}}
    \cup {<<OpsRhsValues, OpsIndex>>, <<OpsRhsValues, <<"10", "30", "20">>>>}

OpsScalars == {0, 2, 3}

NextOps ==
    \/ \E in \in OpsSeriesInputs : NewSeries(in[1], in[2])
    \/ \E fn \in Ops, rhs \in OpsScalars : SeriesBroadcast(fn, rhs)
    \/ \E fn \in Ops, in \in OpsRhsInputs : SeriesElemwise(fn, in[1], in[2])

SpecOps == Init /\ [][NextOps]_vars

\* PartialEq::eq of two tables: row Indexer, column Indexer, column arrays
DataFrameEq(tbls, a, b) ==
    /\ IndexerEq(IndexOf(tbls, tbls[a]), IndexOf(tbls, tbls[b]))
    /\ IndexerEq(ColumnsOf(tbls, tbls[a]), ColumnsOf(tbls, tbls[b]))
    /\ Arrays(tbls[a]) = Arrays(tbls[b])

\* ---------------------------------------------------------------- properties
Rows(h) == IndexOf(tables, tables[h]).values

Cols(h) == ColumnsOf(tables, tables[h]).values

ShapeOk(h) ==
    /\ Len(tables[h].values) = Len(Cols(h))
    /\ \A j \in 1..Len(tables[h].values) : Len(tables[h].values[j].arr) = Len(Rows(h))

\* C1: every live table, however it was produced, has as many column arrays
\* as column labels, and every column array is as long as the row Indexer
C1_TableShape == \A h \in live : ShapeOk(h)

\* a column was inserted into a table that has rows and now two columns
C1_Witness ==
    /\ last.op = "insert" /\ last.err = "ok"
    /\ Len(Rows(last.src)) >= 1 /\ Len(Cols(last.src)) >= 2

\* C2: an insert through one handle changes nothing any other live handle
\* observes: their row Indexer, column Indexer and column arrays are the same
\* after the call as before, also when they share storage with the receiver
C2_CowIsolation ==
    [][last'.op = "insert" =>
          \A g \in live \ {last'.src} : View(tables', g) = View(tables, g)]_vars

\* a column was inserted into a table whose column Indexer was borrowed from a
\* table that is still live
C2_Witness ==
    /\ last.op = "insert" /\ last.err = "ok"
    /\ last.other \in live
    /\ Cols(last.src) # Cols(last.other)

\* C3: insert of an array whose length differs from the row count fails with
\* LengthMismatch and leaves every table, the receiver included, as it was
C3_InsertLengthMismatch ==
    [][(last'.op = "insert" /\ Len(last'.arr) # Len(Rows(last'.src))) =>
          (last'.err = "LengthMismatch" /\ tables' = tables /\ live' = live)]_vars

\* an insert was refused on a table that already has a column
C3_Witness ==
    /\ last.op = "insert" /\ last.err = "LengthMismatch"
    /\ Len(last.arr) # Len(Rows(last.src))
    /\ Len(Cols(last.src)) >= 1

\* C4: append of two tables whose column Indexers differ fails with
\* ColumnsDiffer, returns no table and leaves both operands as they were
C4_AppendColumnsDiffer ==
    [][(last'.op = "append" /\ Cols(last'.src) # Cols(last'.other)) =>
          (last'.err = "ColumnsDiffer" /\ last'.dst = 0
           /\ tables' = tables /\ live' = live)]_vars

\* an append was refused for two tables with the same number of columns
C4_Witness ==
    /\ last.op = "append" /\ last.err = "ColumnsDiffer"
    /\ Cols(last.src) # Cols(last.other)
    /\ Len(Cols(last.src)) = Len(Cols(last.other))
Vals(h) == Arrays(tables[h])

InRange(locs, n) == \A k \in 1..Len(locs) : locs[k] \in 1..n

\* C5: reindex_by_index(P) with P in range returns a table of Len(P) rows
\* whose row label i and, in every column, whose row i are those at position
\* P[i] of the source, with the source's column labels and column count
C5_ReindexByIndex ==
    (last.op = "reindex_by_index" /\ InRange(last.locs, Len(Rows(last.src)))) =>
        /\ last.err = "ok"
        /\ Len(Rows(last.dst)) = Len(last.locs)
        /\ \A i \in 1..Len(last.locs) : Rows(last.dst)[i] = Rows(last.src)[last.locs[i]]
        /\ Cols(last.dst) = Cols(last.src)
        /\ Len(Vals(last.dst)) = Len(Vals(last.src))
        /\ \A j \in 1..Len(Vals(last.src)) :
              /\ Len(Vals(last.dst)[j]) = Len(last.locs)
              /\ \A i \in 1..Len(last.locs) :
                    Vals(last.dst)[j][i] = Vals(last.src)[j][last.locs[i]]

\* two rows of a table with a column were taken in another order or twice
C5_Witness ==
    /\ last.op = "reindex_by_index" /\ last.err = "ok"
    /\ last.locs \in {<<2, 1>>, <<1, 1>>}
    /\ Len(Vals(last.src)) >= 1
    /\ Rows(last.dst) # Rows(last.src)

AllPositions(n) == [k \in 1..n |-> k]

ColumnSlice(src, dst, q) ==
    /\ Rows(dst) = Rows(src)
    /\ Len(Cols(dst)) = Len(q) /\ Len(Vals(dst)) = Len(q)
    /\ \A j \in 1..Len(q) : /\ Cols(dst)[j] = Cols(src)[q[j]]
                           /\ Vals(dst)[j] = Vals(src)[q[j]]

\* C7: igets(Q) with Q in range keeps the row Indexer and takes column label
\* and whole column array Q[j] as column j; gets(labels) is that slice at
\* positions get_locs found for the labels
C7_ColumnSlice ==
    /\ (last.op = "igets" /\ InRange(last.locs, Len(Cols(last.src)))) =>
          (last.err = "ok" /\ ColumnSlice(last.src, last.dst, last.locs))
    /\ (last.op = "gets" /\ last.err = "ok") =>
          /\ Len(last.locs) = Len(last.labels)
          /\ InRange(last.locs, Len(Cols(last.src)))
          /\ \A j \in 1..Len(last.labels) : Cols(last.src)[last.locs[j]] = last.labels[j]
          /\ Cols(last.dst) = last.labels
          /\ ColumnSlice(last.src, last.dst, last.locs)

\* two columns of a table with rows were taken by label in the other order
C7_Witness ==
    /\ last.op = "gets" /\ last.err = "ok"
    /\ last.locs = <<2, 1>>
    /\ Len(Rows(last.src)) >= 1

CountOf(l, labels) == Cardinality({p \in 1..Len(labels) : labels[p] = l})

RECURSIVE SumProducts(_, _, _)
\* sum over the labels of S of the products of their counts left and right
SumProducts(S, left, right) ==
    IF S = {} THEN 0
    ELSE LET l == CHOOSE x \in S : TRUE
         IN CountOf(l, left) * CountOf(l, right) + SumProducts(S \ {l}, left, right)

\* C8: join_inner returns as many rows as the sum, over the labels of both
\* row Indexers, of the number of left positions times the number of right
\* positions of the label
C8_JoinRowCount ==
    last.op = "join_inner" =>
        /\ last.err = "ok"
        /\ Len(Rows(last.dst)) =
              SumProducts(Range(Rows(last.src)) \cap Range(Rows(last.other)),
                          Rows(last.src), Rows(last.other))

\* two tables that carry one label twice each were joined into four rows
C8_Witness ==
    /\ last.op = "join_inner" /\ last.err = "ok"
    /\ last.src # last.other
    /\ Len(Rows(last.dst)) = 4
    /\ \E l \in RowLabels : CountOf(l, Rows(last.src)) = 2 /\ CountOf(l, Rows(last.other)) = 2

\* C9: the pairs are emitted by ascending left position and, for one left
\* position, by ascending right position, and merged label i is the label at
\* both positions of pair i
C9_JoinOrdering ==
    last.op = "join_inner" =>
        /\ Len(last.rlocs) = Len(last.locs) /\ Len(last.labels) = Len(last.locs)
        /\ \A i \in 1..Len(last.locs) :
              /\ last.locs[i] \in 1..Len(Rows(last.src))
              /\ last.rlocs[i] \in 1..Len(Rows(last.other))
              /\ last.labels[i] = Rows(last.src)[last.locs[i]]
              /\ last.labels[i] = Rows(last.other)[last.rlocs[i]]
        /\ \A i \in 1..Len(last.locs), k \in 1..Len(last.locs) :
              i < k => \/ last.locs[i] < last.locs[k]
                       \/ (last.locs[i] = last.locs[k] /\ last.rlocs[i] < last.rlocs[k])

\* two pairs were emitted whose right positions descend
C9_Witness ==
    /\ last.op = "join_inner" /\ last.err = "ok"
    /\ last.locs = <<1, 2>> /\ last.rlocs = <<2, 1>>

\* C10: the joined table has the merged labels as rows, the left column
\* labels followed by the right ones, and as columns the left columns gathered
\* at the left positions followed by the right columns gathered at the right
\* positions
C10_JoinMaterialize ==
    (last.op = "join_inner" /\ last.err = "ok") =>
        LET n == Len(Vals(last.src))
        IN /\ Rows(last.dst) = last.labels
           /\ Cols(last.dst) = Cols(last.src) \o Cols(last.other)
           /\ Len(Vals(last.dst)) = n + Len(Vals(last.other))
           /\ \A j \in 1..Len(Vals(last.dst)) :
                 /\ Len(Vals(last.dst)[j]) = Len(last.labels)
                 /\ \A i \in 1..Len(last.labels) :
                       Vals(last.dst)[j][i] =
                          IF j <= n THEN Vals(last.src)[j][last.locs[i]]
                          ELSE Vals(last.other)[j - n][last.rlocs[i]]

\* two tables of one column each, with the same column label, were joined
\* into rows
C10_Witness ==
    /\ last.op = "join_inner" /\ last.err = "ok"
    /\ last.src # last.other
    /\ Cols(last.dst) = <<"x", "x">>
    /\ Len(Rows(last.dst)) >= 1
\* C16: a successful append returns a table whose row labels are the
\* receiver's followed by the other's, whose column labels are the receiver's
\* and whose column j is the receiver's column j followed by the other's
\* column j, so its row count is the sum of the operands' row counts; an
\* append of tables with equal column labels succeeds
C16_AppendResult ==
    (last.op = "append" /\ Cols(last.src) = Cols(last.other)) =>
        /\ last.err = "ok" /\ last.dst \in live
        /\ Rows(last.dst) = Rows(last.src) \o Rows(last.other)
        /\ Cols(last.dst) = Cols(last.src)
        /\ Len(Vals(last.dst)) = Len(Vals(last.src))
        /\ \A j \in 1..Len(Vals(last.src)) :
              Vals(last.dst)[j] = Vals(last.src)[j] \o Vals(last.other)[j]
        /\ Len(Rows(last.dst)) = Len(Rows(last.src)) + Len(Rows(last.other))

\* two different tables with a column and a row each were appended
C16_Witness ==
    /\ last.op = "append" /\ last.err = "ok"
    /\ last.src # last.other
    /\ Len(Cols(last.src)) >= 1
    /\ Len(Rows(last.src)) >= 1 /\ Len(Rows(last.other)) >= 1
    /\ Vals(last.src) # Vals(last.other)

\* C17: concat of tables whose row Indexers differ fails with IndexDiffer,
\* returns no table and leaves the operands as they were; otherwise the result
\* has the receiver's row labels, the receiver's column labels followed by the
\* other's, and the receiver's arrays followed by the other's, each unchanged
C17_Concat ==
    [][last'.op = "concat" =>
          LET a == last'.src
              b == last'.other
          IN /\ View(tables', a) = View(tables, a)
             /\ View(tables', b) = View(tables, b)
             /\ IF View(tables, a).index # View(tables, b).index
                THEN last'.err = "IndexDiffer" /\ last'.dst = 0
                     /\ tables' = tables /\ live' = live
                ELSE /\ last'.err = "ok" /\ last'.dst \in live' \ live
                     /\ View(tables', last'.dst) =
                            [index |-> View(tables, a).index,
                             columns |-> View(tables, a).columns \o View(tables, b).columns,
                             values |-> View(tables, a).values \o View(tables, b).values]]_vars

\* two different tables with the same row labels were concatenated into a
\* table of two columns
C17_Witness ==
    /\ last.op = "concat" /\ last.err = "ok"
    /\ last.src # last.other
    /\ Len(Rows(last.src)) >= 1
    /\ Len(Cols(last.dst)) = 2 /\ Len(Cols(last.src)) = 1

\* a concat of two tables with as many but different row labels was refused
C17_WitnessRefused ==
    /\ last.op = "concat" /\ last.err = "IndexDiffer"
    /\ Len(Rows(last.src)) = Len(Rows(last.other))

\* C18: reindex by labels returns the table reindex_by_index gives for the
\* positions get_locs finds for the labels, so row i of the result carries
\* label i of the request and the source's values of a row with that label;
\* when a requested label is absent the call fails with UnknownLabel and
\* returns no table
C18_ReindexByLabel ==
    last.op = "reindex" =>
        IF \A i \in 1..Len(last.labels) : last.labels[i] \in Range(Rows(last.src))
        THEN /\ last.err = "ok" /\ last.dst \in live
             /\ last.locs \in IndexerGetLocs(IndexOf(tables, tables[last.src]), last.labels)
             /\ tables[last.dst] = DataFrameReindexByIndex(tables, last.src, last.locs)
             /\ Rows(last.dst) = last.labels
             /\ Cols(last.dst) = Cols(last.src)
             /\ Len(Vals(last.dst)) = Len(Vals(last.src))
             /\ \A i \in 1..Len(last.labels) :
                   /\ last.locs[i] \in 1..Len(Rows(last.src))
                   /\ Rows(last.src)[last.locs[i]] = last.labels[i]
                   /\ \A j \in 1..Len(Vals(last.src)) :
                         Vals(last.dst)[j][i] = Vals(last.src)[j][last.locs[i]]
        ELSE last.err = "UnknownLabel" /\ last.dst = 0

\* a table of two rows and at least a column was reindexed by its labels in
\* reverse order
C18_Witness ==
    /\ last.op = "reindex" /\ last.err = "ok"
    /\ last.labels = <<"b", "a">>
    /\ Rows(last.src) = <<"a", "b">>
    /\ Len(Cols(last.src)) >= 1

\* a reindex that asked for a present and an absent label was refused
C18_WitnessUnknown ==
    /\ last.op = "reindex" /\ last.err = "UnknownLabel"
    /\ last.labels = <<"b", "a">>
    /\ Len(Rows(last.src)) >= 1

\* C19: an insert of an array as long as the row count succeeds and leaves
\* the receiver with one more column: the new array and its label stand last,
\* the earlier arrays and labels keep their positions, and the row Indexer is
\* unchanged
C19_InsertResult ==
    [][(last'.op = "insert"
          /\ Len(last'.arr) = Len(View(tables, last'.src).index)) =>
          /\ last'.err = "ok"
          /\ View(tables', last'.src) =
                 [index |-> View(tables, last'.src).index,
                  columns |-> View(tables, last'.src).columns \o last'.labels,
                  values |-> View(tables, last'.src).values \o <<last'.arr>>]]_vars

\* a column was inserted into a table that had a column and a row
C19_Witness ==
    /\ last.op = "insert" /\ last.err = "ok"
    /\ Len(Cols(last.src)) = 2
    /\ Len(Rows(last.src)) >= 1
    /\ Vals(last.src)[2] = last.arr
    /\ Vals(last.src)[1] # last.arr

\* ---------------------------------------------------------------- grouping properties
\* number of entries of list l equal to p
Occurrences(l, p) == Cardinality({i \in 1..Len(l) : l[i] = p})

StrictlyAscending(v) == \A i \in 1..Len(v), j \in 1..Len(v) : i < j => v[i] < v[j]

\* C11: the position lists of the Grouper of a GroupBy partition the
\* positions of the grouped data: there are as many keys as rows, every
\* position stands once in the list of its own key and in no other list, no
\* list is empty and no list holds a position outside the data
C11_GrouperPartition ==
    gb.live =>
        LET n == DataLen(gb.data)
            g == gb.grouper
        IN /\ Len(gb.keys) = n
           /\ \A p \in 1..n :
                 /\ HashGrouperHas(g, gb.keys[p])
                 /\ \A k \in DOMAIN g :
                       Occurrences(g[k], p) = (IF k = gb.keys[p] THEN 1 ELSE 0)
           /\ \A k \in DOMAIN g :
                 /\ g[k] # <<>>
                 /\ \A i \in 1..Len(g[k]) : g[k][i] \in 1..n

\* the keys of the test were grouped: three positions under the first key and
\* two under the second
C11_Witness ==
    /\ gb.live
    /\ gb.keys = TestKeys
    /\ DOMAIN gb.grouper = {1, 2}
    /\ gb.grouper[1] = <<1, 2, 3>>
    /\ gb.grouper[2] = <<4, 5>>

\* C12: groups returns every distinct key of the grouping once, in strictly
\* ascending order, whatever order the grouper yields its keys in, and the
\* sizes of the groups of these keys add up to the length of the data
C12_GroupsSorted ==
    last.op = "groups" =>
        /\ Range(last.groups) = Range(gb.keys)
        /\ \A k \in Range(gb.keys) : Occurrences(last.groups, k) = 1
        /\ StrictlyAscending(last.groups)
        /\ VecSum([i \in 1..Len(last.groups) |->
                      Len(GroupByGetGroup(gb.grouper, last.groups[i]).locs)])
              = DataLen(gb.data)

\* the grouper yielded two keys in descending order
C12_Witness ==
    /\ last.op = "groups"
    /\ last.order = <<2, 1>>
    /\ last.groups = <<1, 2>>
    /\ DataLen(gb.data) = 2

\* C13: apply calls the function once for every distinct key, in ascending
\* key order, on the rows of that key's group; the result is indexed by the
\* sorted keys and its entry i is the function's value on group i. For keys
\* [1, 1, 1, 2, 2] over values [1, 2, 3, 4, 5] the sums are 6 and 9
C13_Apply ==
    last.op = "apply" =>
        /\ last.err = "ok"
        /\ Range(last.groups) = Range(gb.keys)
        /\ StrictlyAscending(last.groups)
        /\ Len(last.calls) = Len(last.groups)
        /\ Len(last.vals) = Len(last.groups)
        /\ \A i \in 1..Len(last.groups) :
              LET locs == Matches(last.groups[i], gb.keys)
              IN /\ last.calls[i].key = last.groups[i]
                 /\ last.calls[i].rows = [k \in 1..Len(locs) |-> series.values[locs[k]]]
                 /\ last.vals[i] = VecSum(last.calls[i].rows)
        /\ (series.values = TestValues /\ gb.keys = TestKeys) =>
              (last.groups = <<1, 2>> /\ last.vals = <<6, 9>>)

\* the sums of the test were computed while the grouper yielded the second
\* key first
C13_Witness ==
    /\ last.op = "apply" /\ last.err = "ok"
    /\ series.values = TestValues /\ gb.keys = TestKeys
    /\ last.order = <<2, 1>>
    /\ last.vals = <<6, 9>>

\* C14: get_group of a key of the grouping returns the rows of the data at
\* the positions whose key it is, in ascending position order, with the row
\* labels the data has there; for any other key it fails with GroupNotFound
\* and returns no data
C14_GetGroup ==
    last.op = "get_group" =>
        LET key == last.keys[1]
            locs == Matches(key, gb.keys)
            index == DataIndex(gb.data).values
        IN IF key \in Range(gb.keys)
           THEN /\ last.err = "ok"
                /\ last.locs = locs
                /\ IF gb.data = 0
                   THEN /\ last.vals = [k \in 1..Len(locs) |-> series.values[locs[k]]]
                        /\ last.labels = [k \in 1..Len(locs) |-> index[locs[k]]]
                   ELSE /\ last.dst \in live
                        /\ Rows(last.dst) = [k \in 1..Len(locs) |-> index[locs[k]]]
                        /\ Cols(last.dst) = Cols(gb.data)
                        /\ Len(Vals(last.dst)) = Len(Vals(gb.data))
                        /\ \A j \in 1..Len(Vals(gb.data)) :
                              Vals(last.dst)[j] =
                                 [k \in 1..Len(locs) |-> Vals(gb.data)[j][locs[k]]]
           ELSE /\ last.err = "GroupNotFound"
                /\ last.dst = 0 /\ last.vals = <<>> /\ last.labels = <<>>

\* the second group of the series of the test was fetched
C14_Witness ==
    /\ last.op = "get_group" /\ last.err = "ok"
    /\ gb.data = 0
    /\ last.keys = <<2>>
    /\ last.vals = <<4, 5>>
    /\ last.labels = <<"40", "50">>

\* the group of the second row of a table with a column was fetched
C14_WitnessTable ==
    /\ last.op = "get_group" /\ last.err = "ok"
    /\ gb.data # 0
    /\ last.locs = <<2>>
    /\ Len(Cols(last.dst)) >= 1

\* a key that no row has was asked for
C14_WitnessNotFound ==
    /\ last.op = "get_group" /\ last.err = "GroupNotFound"
    /\ Len(gb.keys) >= 1

\* C15: GroupBy::new fails with LengthMismatch, before a Grouper is built,
\* when there are not as many keys as the data has rows, and succeeds when
\* there are, the empty data included
C15_GroupByNew ==
    last.op = "groupby" =>
        IF Len(last.keys) # DataLen(last.src)
        THEN last.err = "LengthMismatch" /\ ~gb.live /\ gb.grouper = <<>>
        ELSE /\ last.err = "ok"
             /\ gb.live /\ gb.data = last.src /\ gb.keys = last.keys
             /\ gb.grouper = HashGrouperGroupby(last.keys)

\* a grouping with one key fewer than the data has rows was refused
C15_Witness ==
    /\ last.op = "groupby" /\ last.err = "LengthMismatch"
    /\ Len(last.keys) + 1 = DataLen(last.src)
    /\ Len(last.keys) >= 1

\* the empty series was grouped by no keys
C15_WitnessEmpty ==
    /\ last.op = "groupby" /\ last.err = "ok"
    /\ last.src = 0 /\ series.live
    /\ DataLen(0) = 0 /\ last.keys = <<>>

\* C20: from_vec fails with LengthMismatch when the number of arrays is not
\* the number of column labels or an array is not as long as the row labels;
\* Series::new fails when there are not as many values as labels; what is
\* built has exactly the arrays, values and labels it was given
C20_ConstructionShape ==
    /\ last.op = "from_vec" =>
          LET nrows == last.locs[1]
              ncols == last.locs[2]
          IN IF Len(last.lens) # ncols \/ \E j \in 1..Len(last.lens) : last.lens[j] # nrows
             THEN last.err = "LengthMismatch" /\ last.dst = 0
             ELSE /\ last.err = "ok" /\ last.dst \in live
                  /\ Len(Rows(last.dst)) = nrows
                  /\ Len(Cols(last.dst)) = ncols
                  /\ Len(Vals(last.dst)) = Len(last.lens)
                  /\ \A j \in 1..Len(last.lens) : Len(Vals(last.dst)[j]) = last.lens[j]
    /\ last.op = "series_new" =>
          IF Len(last.arr) # Len(last.labels)
          THEN last.err = "LengthMismatch" /\ ~series.live
          ELSE /\ last.err = "ok" /\ series.live
               /\ series.values = last.arr
               /\ series.index.values = last.labels

\* from_vec refused as many arrays as column labels because one array was
\* not as long as the row labels
C20_Witness ==
    /\ last.op = "from_vec" /\ last.err = "LengthMismatch"
    /\ Len(last.lens) = last.locs[2]
    /\ Len(last.lens) >= 2

\* Series::new refused values with one label too many
C20_WitnessSeries ==
    /\ last.op = "series_new" /\ last.err = "LengthMismatch"
    /\ Len(last.labels) = Len(last.arr) + 1
    /\ Len(last.arr) >= 1

\* ---------------------------------------------------------------- slicing and sharing
\* C21: the column arrays of the table gets / igets returns are shared views
\* of the source's column arrays: the slice copies no row data. igets builds
\* every array as Cow::Owned of a clone, so this fails for every slice that
\* selects a column
C21_SliceShares ==
    (last.op \in {"igets", "gets"} /\ last.err = "ok") =>
        \A k \in 1..Len(tables[last.dst].values) :
            tables[last.dst].values[k].cow = "Borrowed"

\* C22: reindex_by_index and igets fail with OutOfBounds exactly when some
\* position is outside the source's rows, respectively columns; then no
\* table is returned and the unchecked gather, respectively the column
\* access, is not made at all, so every gather and access that is made has
\* all its positions inside the array, respectively the column vector
C22_BoundsBeforeGather ==
    last.op \in {"reindex_by_index", "igets"} =>
        LET n == IF last.op = "igets" THEN Len(Cols(last.src)) ELSE Len(Rows(last.src))
        IN /\ (last.err = "OutOfBounds") <=> ~InRange(last.locs, n)
           /\ last.err = "OutOfBounds" => (last.gather = <<>> /\ last.dst = 0)
           /\ \A g \in 1..Len(last.gather) :
                 InRange(last.gather[g].locs, last.gather[g].len)
           /\ last.err = "ok" =>
                 Len(last.gather) =
                    (IF last.op = "igets" THEN Len(last.locs) ELSE Len(Vals(last.src)))

\* reindex_by_index refused, on a table with a column and a row, a list
\* whose first position is in range and whose second is the first one past
\* the rows
C22_Witness ==
    /\ last.op = "reindex_by_index" /\ last.err = "OutOfBounds"
    /\ Len(Cols(last.src)) >= 1
    /\ Len(last.locs) = 2
    /\ last.locs[1] \in 1..Len(Rows(last.src))
    /\ last.locs[2] = Len(Rows(last.src)) + 1

\* igets refused a list with a position past the columns
C22_WitnessIGets ==
    /\ last.op = "igets" /\ last.err = "OutOfBounds"
    /\ Len(Cols(last.src)) >= 1
    /\ last.locs[1] \in 1..Len(Cols(last.src))

\* ---------------------------------------------------------------- Indexer mapping
\* the positions get_locs can give for label l are those that hold l
MappingOk(ix) ==
    \A l \in Labels :
        IndexerGetLocs(ix, <<l>>) = {<<p>> : p \in {q \in 1..Len(ix.values) : ix.values[q] = l}}

\* C23: the mapping of every Indexer of every table, however new, push,
\* reindex and append have built it, agrees with its label sequence: get_locs
\* gives a position for a label only if that position holds the label, gives
\* one for every label of the sequence and none for any other; the label an
\* insert has pushed resolves, right after it, to the last position
C23_IndexerMapping ==
    /\ \A h \in live :
          MappingOk(IndexOf(tables, tables[h])) /\ MappingOk(ColumnsOf(tables, tables[h]))
    /\ (last.op = "insert" /\ last.err = "ok") =>
          <<Len(Cols(last.src))>> \in IndexerGetLocs(ColumnsOf(tables, tables[last.src]),
                                                      last.labels)

\* a label the column Indexer already held was pushed by insert
C23_Witness ==
    /\ last.op = "insert" /\ last.err = "ok"
    /\ Len(Cols(last.src)) = 2
    /\ Cols(last.src)[1] = Cols(last.src)[2]

\* ---------------------------------------------------------------- stability
\* C24: the positions in every list of the Grouper are strictly ascending,
\* and get_group returns the rows of the group in the order they have in the
\* data: row i of the result is the data's row at the i-th position of the
\* list, and these positions ascend
C24_GrouperStable ==
    /\ gb.live => \A k \in DOMAIN gb.grouper : StrictlyAscending(gb.grouper[k])
    /\ (last.op = "get_group" /\ last.err = "ok") =>
          /\ StrictlyAscending(last.locs)
          /\ IF gb.data = 0
             THEN /\ last.vals = [k \in 1..Len(last.locs) |-> series.values[last.locs[k]]]
                  /\ last.labels = [k \in 1..Len(last.locs) |->
                                       series.index.values[last.locs[k]]]
             ELSE Rows(last.dst) = [k \in 1..Len(last.locs) |-> Rows(gb.data)[last.locs[k]]]

\* a group whose rows are not adjacent in the series was fetched
C24_Witness ==
    /\ last.op = "get_group" /\ last.err = "ok"
    /\ gb.keys = MixedKeys /\ series.values = TestValues
    /\ last.keys = <<1>>
    /\ last.locs = <<2, 4, 5>>
    /\ last.vals = <<2, 4, 5>>
    /\ last.labels = <<"20", "40", "50">>

C25_WitnessRefused ==
    /\ last.op = "elemwise" /\ last.err = "IndexDiffer"
    /\ Len(last.labels) = Len(last.rindex)
    /\ Len(last.labels) >= 2

\* negative values were divided by a scalar
C25_WitnessBroadcast ==
    /\ last.op = "broadcast" /\ last.err = "ok"
    /\ last.fn = "div" /\ last.rvals = <<2>>
    /\ last.arr = <<-2, -1, 0>>
    /\ series.values = <<-1, 0, 0>>

====
